---- MODULE Spec2Model ----
(***************************************************************************)
(* Session-based login / dashboard / logout of src/app/app.py, together    *)
(* with the lock-guarded lazy seed of the two demo users.                  *)
(*                                                                         *)
(* A client is a browser: it owns one session cookie and waits for the     *)
(* response of a request before it sends the next one.  The server handles *)
(* every in-flight request on a thread of its own, so the requests of      *)
(* different clients interleave step by step.  The database is an external *)
(* service: every statement sent to it either succeeds (up) or raises.     *)
(***************************************************************************)
EXTENDS Integers, Sequences, FiniteSets, TLC

\* ---------------------------------------------------------------- bounds
NumSalts == 2
MaxRequests == 3

\* ------------------------------------------------------ program constants
\* range(5) of ensure_test_users
MaxAttempts == 5

\* two browsers, each with a session cookie of its own
Clients == {1, 2}
Salts == 1..NumSalts
\* the worker processes; the per-process state is indexed by process.  Only
\* process 1 runs in Spec, both run in SeedSpec.
Procs == {1, 2}

NoUser == 0
NoOne == 0
None == [none |-> TRUE]

\* ------------------------------------------------------------ the database
\* generate_password_hash(p) with the salt it drew: the stored string holds
\* the salt and the digest of (salt, password).
Digest(salt, password) == <<salt, password>>

\* (mutant) every hash is made with the same salt
generate_password_hash_unsalted(password, salt) ==
    [salt |-> 1, digest |-> Digest(1, password)]

generate_password_hash(password, salt) ==
    [salt |-> salt, digest |-> Digest(salt, password)]

\* (mutant) any password verifies
check_password_hash_any(pwhash, password) ==
    Digest(pwhash.salt, password) = pwhash.digest \/ password # ""

\* check_password_hash(pwhash, password): recompute with the stored salt.
check_password_hash(pwhash, password) ==
    Digest(pwhash.salt, password) = pwhash.digest

\* test_users of create_test_users, in insertion order
test_users ==
    << [name |-> "Yamada Taro", email |-> "yamada@example.com", password |-> "password123"],
       [name |-> "Sato Hanako", email |-> "sato@example.com", password |-> "password123"] >>

DemoEmails == { test_users[i].email : i \in 1..Len(test_users) }

\* a user provisioned outside the application
ExternalPassword == "secure456"
ExternalUser ==
    [id |-> 1, name |-> "Suzuki Jiro", email |-> "suzuki@company.com",
     password_hash |-> generate_password_hash(ExternalPassword, 1)]

\* the users tables the application may be started on
InitialTables == { {}, {ExternalUser} }

SetMax(S) == IF S = {} THEN 0 ELSE CHOOSE m \in S : \A x \in S : x <= m

\* AUTO_INCREMENT id of the next row, given the rows the connection sees
NextId(rows) == SetMax({ r.id : r \in rows }) + 1

\* ------------------------------------------------------------ HTTP surface
WellFormedEmails ==
    {"yamada@example.com", "sato@example.com", "suzuki@company.com", "nonexistent@example.com"}
FormEmails == WellFormedEmails \cup {"invalid_email_format", ""}
FormPasswords == {"password123", ExternalPassword, ""}

NoForm == [email |-> "", password |-> ""]
Forms == [email : FormEmails, password : FormPasswords]

\* the routes of the application with their methods; the fields of a POST
\* body are read when login() builds the LoginForm
Requests ==
    { [route |-> "index", method |-> "GET", form |-> NoForm],
      [route |-> "login", method |-> "GET", form |-> NoForm],
      [route |-> "login", method |-> "POST", form |-> NoForm],
      [route |-> "dashboard", method |-> "GET", form |-> NoForm],
      [route |-> "logout", method |-> "GET", form |-> NoForm] }

NoRequest == [route |-> "none", method |-> "none", form |-> NoForm]

\* Responses: a rendered template (200) or a redirect (302).  user is the
\* user handed to the template, email the email field of the form handed to
\* login.html; route names the request the response answers.
Response(status, page, to, flash, user, email) ==
    [route |-> "", status |-> status, page |-> page, to |-> to,
     flash |-> flash, user |-> user, email |-> email]
Render(page, flash, user, email) == Response(200, page, "", flash, user, email)
Redirect(to, flash) == Response(302, "", to, flash, None, "")
NoResponse == Response(0, "", "", "", None, "")

\* create_test_users.py has not been run
NotRun == [pos |-> "idle", txn |-> {}, runs |-> 0, out |-> "none"]

VARIABLES
    users,        \* committed rows of the users table
    test_users_initialized,   \* _test_users_initialized, per process
    test_users_lock,          \* holder of _test_users_lock, per process
    boot,         \* per process: position of the __main__ block
    mtxn,         \* uncommitted rows of the __main__ seed's connection
    pc,           \* per client: position of its in-flight request
    req,          \* per client: the request in flight (or the last one)
    worker,       \* per client: the process that handles the request
    attempt,      \* per client: loop variable of ensure_test_users
    calls,        \* per client: create_test_users calls of this invocation
    txn,          \* per client: uncommitted rows of the seed's connection
    ret,          \* per client (history): what the last create_test_users
                  \* call of the request in flight returned
    sess,         \* per client: user id in the session cookie
    resp,         \* per client: response to the last completed request
    nreq,         \* requests sent so far
    submitted,    \* per client (history): since the session was last
                  \* cleared, a login form was submitted whose email is
                  \* the email of a row and whose password is that row's
    database,     \* what is assumed of the MySQL server: "unreliable" (any
                  \* statement may raise) or "up" (no statement raises for
                  \* lack of the server)
    standalone    \* create_test_users.py: position of the run in progress,
                  \* uncommitted rows of its connection, runs started, and
                  \* the message the last run ended with

vars == << users, test_users_initialized, test_users_lock, boot, mtxn,
           pc, req, worker, attempt, calls, txn, ret, sess, resp, nreq, submitted,
           database, standalone >>

\* whether a statement sent to the server is answered (TRUE) or raises
Answers == IF database = "up" THEN {TRUE} ELSE BOOLEAN

\* the outcomes of the load_user query of a request: the query is sent only
\* when the session cookie holds a user id
Lookup(session) == IF session = NoUser THEN {TRUE} ELSE Answers

\* --------------------------------------------------------- User lookups
\* (mutant) the row is returned although the query raised
get_user_by_email_ignoring_error(table, up, email) ==
    IF \E r \in table : r.email = email
    THEN CHOOSE r \in table : r.email = email
    ELSE None

\* User.get_user_by_email: the row as a dict, None when there is no such
\* row or when the database raises.
get_user_by_email(table, up, email) ==
    IF ~up THEN None
    ELSE IF \E r \in table : r.email = email
         THEN CHOOSE r \in table : r.email = email
         ELSE None

\* (mutant) when the query raises, a user is made up from the id
get_user_by_id_trusting_session(table, up, user_id) ==
    IF \E r \in table : r.id = user_id
    THEN LET r == CHOOSE r \in table : r.id = user_id
         IN [id |-> r.id, name |-> r.name, email |-> r.email]
    ELSE [id |-> user_id, name |-> "", email |-> ""]

\* User.get_user_by_id: User(id, name, email), None when there is no such
\* row or when the database raises.
get_user_by_id(table, up, user_id) ==
    IF ~up THEN None
    ELSE IF \E r \in table : r.id = user_id
         THEN LET r == CHOOSE r \in table : r.id = user_id
              IN [id |-> r.id, name |-> r.name, email |-> r.email]
         ELSE None

\* (mutant) the loader finds nobody
load_user_returning_none(table, up, user_id) == None

\* login_manager.user_loader
load_user(table, up, user_id) == get_user_by_id(table, up, user_id)

\* current_user of a request whose session cookie holds user_id: the loaded
\* user, or the anonymous user (None) when the session is empty or the
\* loader returns None.
current_user(table, up, user_id) ==
    IF user_id = NoUser THEN None ELSE load_user(table, up, user_id)

is_authenticated(user) == user # None

\* (mutant) the validators are not run
validate_on_submit_without_validators(request) == request.method = "POST"

\* LoginForm.validate_on_submit(): a POST whose email is present and
\* well-formed and whose password is present.
validate_on_submit(request) ==
    /\ request.method = "POST"
    /\ request.form.email # ""
    /\ request.form.email \in WellFormedEmails
    /\ request.form.password # ""

\* --------------------------------------------------------------- the seed
\* the email column is UNIQUE in the external schema
UniqueEmail(rows, email) == \A r \in rows : r.email # email

CtuPositions == {"connect", "count", "insert1", "insert2", "commit"}

CtuResult(pos, pending, table, value) ==
    [pos |-> pos, txn |-> pending, users |-> table, ret |-> value]

\* (mutant) a table that is not empty is reported as a failure
create_test_users_failing_when_seeded(pos, pending, table, up, salt) ==
    IF ~up THEN CtuResult("return", {}, table, FALSE)
    ELSE CASE pos = "connect" -> CtuResult("count", {}, table, FALSE)
           [] pos = "count" ->
                IF Cardinality(table) = 0
                THEN CtuResult("insert1", {}, table, FALSE)
                ELSE CtuResult("return", {}, table, FALSE)
           [] pos \in {"insert1", "insert2"} ->
                LET u == IF pos = "insert1" THEN test_users[1] ELSE test_users[2]
                    row == [id |-> NextId(table \cup pending),
                            name |-> u.name, email |-> u.email,
                            password_hash |-> generate_password_hash(u.password, salt)]
                IN IF UniqueEmail(table \cup pending, u.email)
                   THEN CtuResult(IF pos = "insert1" THEN "insert2" ELSE "commit",
                                  pending \cup {row}, table, FALSE)
                   ELSE CtuResult("return", {}, table, FALSE)
           [] pos = "commit" -> CtuResult("return", {}, table \cup pending, TRUE)

\* (mutant) the connection commits each statement by itself
create_test_users_autocommit(pos, pending, table, up, salt) ==
    IF ~up THEN CtuResult("return", {}, table, FALSE)
    ELSE CASE pos = "connect" -> CtuResult("count", {}, table, FALSE)
           [] pos = "count" ->
                IF Cardinality(table) = 0
                THEN CtuResult("insert1", {}, table, FALSE)
                ELSE CtuResult("return", {}, table, TRUE)
           [] pos \in {"insert1", "insert2"} ->
                LET u == IF pos = "insert1" THEN test_users[1] ELSE test_users[2]
                    row == [id |-> NextId(table \cup pending),
                            name |-> u.name, email |-> u.email,
                            password_hash |-> generate_password_hash(u.password, salt)]
                IN IF UniqueEmail(table \cup pending, u.email)
                   THEN CtuResult(IF pos = "insert1" THEN "insert2" ELSE "commit",
                                  {}, table \cup {row}, FALSE)
                   ELSE CtuResult("return", {}, table, FALSE)
           [] pos = "commit" -> CtuResult("return", {}, table \cup pending, TRUE)

\* (mutant) the password is stored as it is
create_test_users_storing_password(pos, pending, table, up, salt) ==
    IF ~up THEN CtuResult("return", {}, table, FALSE)
    ELSE CASE pos = "connect" -> CtuResult("count", {}, table, FALSE)
           [] pos = "count" ->
                IF Cardinality(table) = 0
                THEN CtuResult("insert1", {}, table, FALSE)
                ELSE CtuResult("return", {}, table, TRUE)
           [] pos \in {"insert1", "insert2"} ->
                LET u == IF pos = "insert1" THEN test_users[1] ELSE test_users[2]
                    row == [id |-> NextId(table \cup pending),
                            name |-> u.name, email |-> u.email,
                            password_hash |-> [salt |-> salt, digest |-> u.password]]
                IN IF UniqueEmail(table \cup pending, u.email)
                   THEN CtuResult(IF pos = "insert1" THEN "insert2" ELSE "commit",
                                  pending \cup {row}, table, FALSE)
                   ELSE CtuResult("return", {}, table, FALSE)
           [] pos = "commit" -> CtuResult("return", {}, table \cup pending, TRUE)

\* (mutant) the seed empties the table before it inserts
create_test_users_resetting(pos, pending, table, up, salt) ==
    IF ~up THEN CtuResult("return", {}, table, FALSE)
    ELSE CASE pos = "connect" -> CtuResult("count", {}, table, FALSE)
           [] pos = "count" -> CtuResult("insert1", {}, table, FALSE)
           [] pos \in {"insert1", "insert2"} ->
                LET u == IF pos = "insert1" THEN test_users[1] ELSE test_users[2]
                    row == [id |-> NextId(table \cup pending),
                            name |-> u.name, email |-> u.email,
                            password_hash |-> generate_password_hash(u.password, salt)]
                IN CtuResult(IF pos = "insert1" THEN "insert2" ELSE "commit",
                             pending \cup {row}, table, FALSE)
           [] pos = "commit" -> CtuResult("return", {}, pending, TRUE)

\* (mutant) the rows are inserted whatever the count
create_test_users_without_count(pos, pending, table, up, salt) ==
    IF ~up THEN CtuResult("return", {}, table, FALSE)
    ELSE CASE pos = "connect" -> CtuResult("count", {}, table, FALSE)
           [] pos = "count" -> CtuResult("insert1", {}, table, FALSE)
           [] pos \in {"insert1", "insert2"} ->
                LET u == IF pos = "insert1" THEN test_users[1] ELSE test_users[2]
                    row == [id |-> NextId(table \cup pending),
                            name |-> u.name, email |-> u.email,
                            password_hash |-> generate_password_hash(u.password, salt)]
                IN IF UniqueEmail(table \cup pending, u.email)
                   THEN CtuResult(IF pos = "insert1" THEN "insert2" ELSE "commit",
                                  pending \cup {row}, table, FALSE)
                   ELSE CtuResult("return", {}, table, FALSE)
           [] pos = "commit" -> CtuResult("return", {}, table \cup pending, TRUE)

\* (mutant) the email column has no unique index
create_test_users_without_unique_index(pos, pending, table, up, salt) ==
    IF ~up THEN CtuResult("return", {}, table, FALSE)
    ELSE CASE pos = "connect" -> CtuResult("count", {}, table, FALSE)
           [] pos = "count" ->
                IF Cardinality(table) = 0
                THEN CtuResult("insert1", {}, table, FALSE)
                ELSE CtuResult("return", {}, table, TRUE)
           [] pos \in {"insert1", "insert2"} ->
                LET u == IF pos = "insert1" THEN test_users[1] ELSE test_users[2]
                    row == [id |-> NextId(table \cup pending),
                            name |-> u.name, email |-> u.email,
                            password_hash |-> generate_password_hash(u.password, salt)]
                IN IF TRUE
                   THEN CtuResult(IF pos = "insert1" THEN "insert2" ELSE "commit",
                                  pending \cup {row}, table, FALSE)
                   ELSE CtuResult("return", {}, table, FALSE)
           [] pos = "commit" -> CtuResult("return", {}, table \cup pending, TRUE)

\* One statement of create_test_users at position pos, on a connection whose
\* uncommitted rows are pending.  Any database error ends the call with
\* False, and closing the connection discards the uncommitted rows.
create_test_users(pos, pending, table, up, salt) ==
    IF ~up THEN CtuResult("return", {}, table, FALSE)
    ELSE CASE pos = "connect" -> CtuResult("count", {}, table, FALSE)
           [] pos = "count" ->
                IF Cardinality(table) = 0
                THEN CtuResult("insert1", {}, table, FALSE)
                ELSE CtuResult("return", {}, table, TRUE)
           [] pos \in {"insert1", "insert2"} ->
                LET u == IF pos = "insert1" THEN test_users[1] ELSE test_users[2]
                    row == [id |-> NextId(table \cup pending),
                            name |-> u.name, email |-> u.email,
                            password_hash |-> generate_password_hash(u.password, salt)]
                IN IF UniqueEmail(table \cup pending, u.email)
                   THEN CtuResult(IF pos = "insert1" THEN "insert2" ELSE "commit",
                                  pending \cup {row}, table, FALSE)
                   ELSE CtuResult("return", {}, table, FALSE)
           [] pos = "commit" -> CtuResult("return", {}, table \cup pending, TRUE)

\* ------------------------------------------------------------------- Init
Init ==
    /\ users \in InitialTables
    /\ test_users_initialized = [p \in Procs |-> FALSE]
    /\ test_users_lock = [p \in Procs |-> NoOne]
    /\ boot = [p \in Procs |-> IF p = 1 THEN "start" ELSE "off"]
    /\ mtxn = [p \in Procs |-> {}]
    /\ pc = [c \in Clients |-> "idle"]
    /\ req = [c \in Clients |-> NoRequest]
    /\ worker = [c \in Clients |-> CHOOSE p \in Procs : TRUE]
    /\ attempt = [c \in Clients |-> 0]
    /\ calls = [c \in Clients |-> 0]
    /\ txn = [c \in Clients |-> {}]
    /\ ret = [c \in Clients |-> "none"]
    /\ sess = [c \in Clients |-> NoUser]
    /\ resp = [c \in Clients |-> NoResponse]
    /\ nreq = 0
    /\ submitted = [c \in Clients |-> FALSE]
    /\ database = "unreliable"
    /\ standalone = NotRun

\* ------------------------------------------------------------ environment
\* the session cookie of an idle client expires or is cleared
SessionClear(c) ==
    /\ pc[c] = "idle"
    /\ sess[c] # NoUser
    /\ sess' = [sess EXCEPT ![c] = NoUser]
    /\ submitted' = [submitted EXCEPT ![c] = FALSE]
    /\ UNCHANGED << users, test_users_initialized, test_users_lock, boot,
                    mtxn, pc, req, worker, attempt, calls, txn, resp, nreq, ret,
                    database, standalone >>

\* --------------------------------------------------------------- __main__
\* The module is either run as a script, which seeds before app.run, or
\* imported by a WSGI server, which skips the __main__ block.
MainStart(p) ==
    /\ boot[p] = "start"
    /\ \E script \in BOOLEAN :
         boot' = [boot EXCEPT ![p] = IF script THEN "connect" ELSE "serving"]
    /\ UNCHANGED << users, test_users_initialized, test_users_lock, mtxn,
                    pc, req, worker, attempt, calls, txn, sess, resp, nreq, submitted, ret,
                    database, standalone >>

\* The email column is unique: an INSERT of an email that another connection
\* has inserted and not yet committed or rolled back waits for the end of
\* that transaction.  Held(pendings) are the emails so held by the
\* connections whose uncommitted rows are pendings.
Held(pendings) == { r.email : r \in UNION pendings }

InsertWaits(pos, held) ==
    \/ pos = "insert1" /\ test_users[1].email \in held
    \/ pos = "insert2" /\ test_users[2].email \in held

\* create_test_users() of the __main__ block; the return value is dropped
MainSeed(p) ==
    /\ boot[p] \in CtuPositions
    /\ \E salt \in Salts, up \in Answers :
         /\ up => ~InsertWaits(boot[p], Held({ txn[d] : d \in Clients }
                                              \cup { mtxn[q] : q \in Procs \ {p} }))
         /\ LET r == create_test_users(boot[p], mtxn[p], users, up, salt)
            IN /\ boot' = [boot EXCEPT ![p] = IF r.pos = "return" THEN "serving" ELSE r.pos]
               /\ mtxn' = [mtxn EXCEPT ![p] = r.txn]
               /\ users' = r.users
    /\ UNCHANGED << test_users_initialized, test_users_lock,
                    pc, req, worker, attempt, calls, txn, ret, sess, resp, nreq, submitted,
                    database, standalone >>


\* the form names a row of the table and carries the password that row's
\* hash was generated from
Matches(table, form) ==
    \E r \in table :
       /\ r.email = form.email
       /\ \E s \in Salts : r.password_hash = generate_password_hash(form.password, s)

\* ------------------------------------------------------- request handlers
\* flash messages
LoginSuccess == "login succeeded"
InvalidCredentials == "email or password is incorrect"
LoginRequired == "login required"
LoggedOut == "logged out"

Outcome(session, response) == [sess |-> session, resp |-> response]

\* login_required: login_manager.unauthorized() flashes login_message and
\* redirects to login_view
unauthorized(session) == Outcome(session, Redirect("login", LoginRequired))

\* (mutant) index does not look at current_user
index_without_redirect(table, up, session) ==
    Outcome(session, Render("index", "", None, ""))

\* index(), after ensure_test_users
index(table, up, session) ==
    IF is_authenticated(current_user(table, up, session))
    THEN Outcome(session, Redirect("dashboard", ""))
    ELSE Outcome(session, Render("index", "", None, ""))

\* (mutant) an unknown email gets a message of its own
login_submit_enumerating(table, up, session, form) ==
    LET user_data == get_user_by_email(table, up, form.email)
    IN IF user_data = None
       THEN Outcome(session, Render("login", "no such user", None, form.email))
       ELSE IF check_password_hash(user_data.password_hash, form.password)
       THEN Outcome(user_data.id, Redirect("dashboard", LoginSuccess))
       ELSE Outcome(session, Render("login", InvalidCredentials, None, form.email))

\* (mutant) a login fails while another login is being handled
login_submit_one_at_a_time(table, up, session, form) ==
    LET user_data == get_user_by_email(table, up, form.email)
        busy == Cardinality({ d \in DOMAIN pc :
                                pc[d] = "handler" /\ req[d].route = "login" }) > 1
    IN IF busy
       THEN Outcome(session, Response(500, "error", "", "", None, ""))
       ELSE IF user_data # None /\ check_password_hash(user_data.password_hash, form.password)
       THEN Outcome(user_data.id, Redirect("dashboard", LoginSuccess))
       ELSE Outcome(session, Render("login", InvalidCredentials, None, form.email))

\* (mutant) an account is locked once a login for it was refused
login_submit_with_lockout(table, up, session, form) ==
    LET user_data == get_user_by_email(table, up, form.email)
        locked == \E d \in DOMAIN resp :
                     resp[d].flash = InvalidCredentials /\ resp[d].email = form.email
    IN IF /\ user_data # None
          /\ check_password_hash(user_data.password_hash, form.password)
          /\ ~locked
       THEN Outcome(user_data.id, Redirect("dashboard", LoginSuccess))
       ELSE Outcome(session, Render("login", InvalidCredentials, None, form.email))

\* (mutant) the user logged in is not the one looked up
login_submit_as_newest_user(table, up, session, form) ==
    LET user_data == get_user_by_email(table, up, form.email)
    IN IF user_data # None /\ check_password_hash(user_data.password_hash, form.password)
       THEN Outcome(SetMax({ r.id : r \in table }), Redirect("dashboard", LoginSuccess))
       ELSE Outcome(session, Render("login", InvalidCredentials, None, form.email))

\* (mutant) login_user is not called
login_submit_without_login_user(table, up, session, form) ==
    LET user_data == get_user_by_email(table, up, form.email)
    IN IF user_data # None /\ check_password_hash(user_data.password_hash, form.password)
       THEN Outcome(session, Redirect("dashboard", LoginSuccess))
       ELSE Outcome(session, Render("login", InvalidCredentials, None, form.email))

\* login(), the branch of a validated submission (lines 180-190)
login_submit(table, up, session, form) ==
    LET user_data == get_user_by_email(table, up, form.email)
    IN IF user_data # None /\ check_password_hash(user_data.password_hash, form.password)
       THEN Outcome(user_data.id, Redirect("dashboard", LoginSuccess))
       ELSE Outcome(session, Render("login", InvalidCredentials, None, form.email))

\* (mutant) the form is handled whoever the client is
login_evaluating_credentials(table, up1, up2, session, request) ==
    IF validate_on_submit(request)
    THEN login_submit(table, up2, session, request.form)
    ELSE Outcome(session, Render("login", "", None, request.form.email))

\* login(), after ensure_test_users: an authenticated client is redirected;
\* otherwise the LoginForm is built from the request, a validated submission
\* is looked up (up2), and anything else gets the form back.  up1 is the
\* outcome of the load_user query behind current_user.
login(table, up1, up2, session, request) ==
    IF is_authenticated(current_user(table, up1, session))
    THEN Outcome(session, Redirect("dashboard", ""))
    ELSE IF validate_on_submit(request)
         THEN login_submit(table, up2, session, request.form)
         ELSE Outcome(session, Render("login", "", None, request.form.email))

\* (mutant) login_required is missing
dashboard_without_login_required(table, up, session) ==
    Outcome(session, Render("dashboard", "", current_user(table, up, session), ""))

\* dashboard(), behind login_required
dashboard(table, up, session) ==
    LET user == current_user(table, up, session)
    IN IF is_authenticated(user)
       THEN Outcome(session, Render("dashboard", "", user, ""))
       ELSE unauthorized(session)

\* (mutant) logout lacks login_required
logout_without_login_required(table, up, session) ==
    Outcome(NoUser, Redirect("index", LoggedOut))

\* (mutant) logout_user is not called
logout_without_logout_user(table, up, session) ==
    IF is_authenticated(current_user(table, up, session))
    THEN Outcome(session, Redirect("index", LoggedOut))
    ELSE unauthorized(session)

\* logout(), behind login_required
logout(table, up, session) ==
    IF is_authenticated(current_user(table, up, session))
    THEN Outcome(NoUser, Redirect("index", LoggedOut))
    ELSE unauthorized(session)

Serving == { p \in Procs : boot[p] = "serving" }

\* A client sends a request and a serving process picks it up.  index() and
\* login() begin with ensure_test_users, whose line 141 reads the flag
\* without the lock.
StartRequest(c) ==
    /\ pc[c] = "idle"
    /\ nreq < MaxRequests
    /\ nreq' = nreq + 1
    /\ \E p \in Serving, r \in Requests :
         /\ req' = [req EXCEPT ![c] = r]
         /\ worker' = [worker EXCEPT ![c] = p]
         /\ pc' = [pc EXCEPT ![c] =
                     IF r.route \in {"index", "login"} /\ ~test_users_initialized[p]
                     THEN "acquire" ELSE "handler"]
    /\ resp' = [resp EXCEPT ![c] = NoResponse]
    /\ UNCHANGED << users, test_users_initialized, test_users_lock, boot,
                    mtxn, attempt, calls, txn, sess, submitted, ret,
                    database, standalone >>

\* (mutant) the lock is not taken
EnsureAcquire_without_lock(c) ==
    /\ pc[c] = "acquire"
    /\ IF test_users_initialized[worker[c]]
       THEN /\ pc' = [pc EXCEPT ![c] = "handler"]
            /\ UNCHANGED << test_users_lock, attempt, calls >>
       ELSE /\ test_users_lock' = [test_users_lock EXCEPT ![worker[c]] = c]
            /\ attempt' = [attempt EXCEPT ![c] = 0]
            /\ calls' = [calls EXCEPT ![c] = 1]
            /\ pc' = [pc EXCEPT ![c] = "connect"]
    /\ UNCHANGED << users, test_users_initialized, boot, mtxn,
                    req, worker, txn, sess, resp, nreq, submitted, ret,
                    database, standalone >>

\* (mutant) the flag is not read again under the lock
EnsureAcquire_without_recheck(c) ==
    /\ pc[c] = "acquire"
    /\ test_users_lock[worker[c]] = NoOne
    /\ test_users_lock' = [test_users_lock EXCEPT ![worker[c]] = c]
    /\ attempt' = [attempt EXCEPT ![c] = 0]
    /\ calls' = [calls EXCEPT ![c] = 1]
    /\ pc' = [pc EXCEPT ![c] = "connect"]
    /\ UNCHANGED << users, test_users_initialized, boot, mtxn,
                    req, worker, txn, sess, resp, nreq, submitted, ret,
                    database, standalone >>

\* ensure_test_users, lines 144-149: take the lock, read the flag again, and
\* either leave or make the first attempt
EnsureAcquire(c) ==
    /\ pc[c] = "acquire"
    /\ test_users_lock[worker[c]] = NoOne
    /\ IF test_users_initialized[worker[c]]
       THEN /\ pc' = [pc EXCEPT ![c] = "handler"]
            /\ UNCHANGED << test_users_lock, attempt, calls >>
       ELSE /\ test_users_lock' = [test_users_lock EXCEPT ![worker[c]] = c]
            /\ attempt' = [attempt EXCEPT ![c] = 0]
            /\ calls' = [calls EXCEPT ![c] = 1]
            /\ pc' = [pc EXCEPT ![c] = "connect"]
    /\ UNCHANGED << users, test_users_initialized, boot, mtxn,
                    req, worker, txn, sess, resp, nreq, submitted, ret,
                    database, standalone >>

\* (mutant) the flag is set whatever create_test_users returned
ensure_test_users_ignoring_result(value, tries) ==
    [initialized |-> TRUE, again |-> FALSE]

\* (mutant) range(5) runs once too often
ensure_test_users_six_attempts(value, tries) ==
    IF value THEN [initialized |-> TRUE, again |-> FALSE]
    ELSE [initialized |-> FALSE, again |-> tries + 1 <= MaxAttempts]

\* (mutant) the flag is set when the loop ends, whatever the attempts returned
ensure_test_users_flag_after_loop(value, tries) ==
    IF value THEN [initialized |-> TRUE, again |-> FALSE]
    ELSE [initialized |-> ~(tries + 1 < MaxAttempts), again |-> tries + 1 < MaxAttempts]

\* What ensure_test_users does with the value create_test_users returned
\* (lines 149-153 and back to 148): True sets the flag and returns; False
\* sleeps and either tries again or, after the last attempt, falls out of
\* the loop.  Leaving the with block frees the lock.
ensure_test_users(value, tries) ==
    IF value THEN [initialized |-> TRUE, again |-> FALSE]
    ELSE [initialized |-> FALSE, again |-> tries + 1 < MaxAttempts]

\* (mutant) the lock is dropped while the loop sleeps
SeedStatement_releasing_lock(c) ==
    /\ pc[c] \in CtuPositions
    /\ \E salt \in Salts, up \in Answers :
         /\ up => ~InsertWaits(pc[c], Held({ txn[d] : d \in Clients \ {c} }
                                            \cup { mtxn[q] : q \in Procs }))
         /\ LET r == create_test_users(pc[c], txn[c], users, up, salt)
                e == ensure_test_users(r.ret, attempt[c])
            IN /\ txn' = [txn EXCEPT ![c] = r.txn]
               /\ users' = r.users
               /\ ret' = [ret EXCEPT ![c] = IF r.pos # "return" THEN ret[c]
                                            ELSE IF r.ret THEN "true" ELSE "false"]
               /\ IF r.pos # "return"
                  THEN /\ pc' = [pc EXCEPT ![c] = r.pos]
                       /\ UNCHANGED << test_users_initialized, test_users_lock,
                                       attempt, calls >>
                  ELSE IF e.again
                  THEN /\ pc' = [pc EXCEPT ![c] = "connect"]
                       /\ attempt' = [attempt EXCEPT ![c] = attempt[c] + 1]
                       /\ calls' = [calls EXCEPT ![c] = calls[c] + 1]
                       /\ test_users_lock' = [test_users_lock EXCEPT ![worker[c]] = NoOne]
                       /\ UNCHANGED test_users_initialized
                  ELSE /\ pc' = [pc EXCEPT ![c] = "handler"]
                       /\ attempt' = [attempt EXCEPT ![c] = 0]
                       /\ calls' = [calls EXCEPT ![c] = 0]
                       /\ test_users_initialized' =
                            [test_users_initialized EXCEPT ![worker[c]] =
                               test_users_initialized[worker[c]] \/ e.initialized]
                       /\ test_users_lock' = [test_users_lock EXCEPT ![worker[c]] = NoOne]
    /\ UNCHANGED << boot, mtxn, req, worker, sess, resp, nreq, submitted,
                    database, standalone >>

\* (mutant) the lock is kept when the fifth attempt has failed
SeedStatement_keeping_lock_after_failure(c) ==
    /\ pc[c] \in CtuPositions
    /\ \E salt \in Salts, up \in Answers :
         /\ up => ~InsertWaits(pc[c], Held({ txn[d] : d \in Clients \ {c} }
                                            \cup { mtxn[q] : q \in Procs }))
         /\ LET r == create_test_users(pc[c], txn[c], users, up, salt)
                e == ensure_test_users(r.ret, attempt[c])
            IN /\ txn' = [txn EXCEPT ![c] = r.txn]
               /\ users' = r.users
               /\ ret' = [ret EXCEPT ![c] = IF r.pos # "return" THEN ret[c]
                                            ELSE IF r.ret THEN "true" ELSE "false"]
               /\ IF r.pos # "return"
                  THEN /\ pc' = [pc EXCEPT ![c] = r.pos]
                       /\ UNCHANGED << test_users_initialized, test_users_lock,
                                       attempt, calls >>
                  ELSE IF e.again
                  THEN /\ pc' = [pc EXCEPT ![c] = "connect"]
                       /\ attempt' = [attempt EXCEPT ![c] = attempt[c] + 1]
                       /\ calls' = [calls EXCEPT ![c] = calls[c] + 1]
                       /\ UNCHANGED << test_users_initialized, test_users_lock >>
                  ELSE /\ pc' = [pc EXCEPT ![c] = "handler"]
                       /\ attempt' = [attempt EXCEPT ![c] = 0]
                       /\ calls' = [calls EXCEPT ![c] = 0]
                       /\ test_users_initialized' =
                            [test_users_initialized EXCEPT ![worker[c]] =
                               test_users_initialized[worker[c]] \/ e.initialized]
                       /\ test_users_lock' = [test_users_lock EXCEPT ![worker[c]] =
                                                 IF e.initialized THEN NoOne ELSE c]
    /\ UNCHANGED << boot, mtxn, req, worker, sess, resp, nreq, submitted,
                    database, standalone >>

\* One statement of the create_test_users call of line 149; when the call
\* returns, the loop of ensure_test_users goes on from its value.
SeedStatement(c) ==
    /\ pc[c] \in CtuPositions
    /\ \E salt \in Salts, up \in Answers :
         /\ up => ~InsertWaits(pc[c], Held({ txn[d] : d \in Clients \ {c} }
                                            \cup { mtxn[q] : q \in Procs }))
         /\ LET r == create_test_users(pc[c], txn[c], users, up, salt)
                e == ensure_test_users(r.ret, attempt[c])
            IN /\ txn' = [txn EXCEPT ![c] = r.txn]
               /\ users' = r.users
               /\ ret' = [ret EXCEPT ![c] = IF r.pos # "return" THEN ret[c]
                                            ELSE IF r.ret THEN "true" ELSE "false"]
               /\ IF r.pos # "return"
                  THEN /\ pc' = [pc EXCEPT ![c] = r.pos]
                       /\ UNCHANGED << test_users_initialized, test_users_lock,
                                       attempt, calls >>
                  ELSE IF e.again
                  THEN /\ pc' = [pc EXCEPT ![c] = "connect"]
                       /\ attempt' = [attempt EXCEPT ![c] = attempt[c] + 1]
                       /\ calls' = [calls EXCEPT ![c] = calls[c] + 1]
                       /\ UNCHANGED << test_users_initialized, test_users_lock >>
                  ELSE /\ pc' = [pc EXCEPT ![c] = "handler"]
                       /\ attempt' = [attempt EXCEPT ![c] = 0]
                       /\ calls' = [calls EXCEPT ![c] = 0]
                       /\ test_users_initialized' =
                            [test_users_initialized EXCEPT ![worker[c]] =
                               test_users_initialized[worker[c]] \/ e.initialized]
                       /\ test_users_lock' = [test_users_lock EXCEPT ![worker[c]] = NoOne]
    /\ UNCHANGED << boot, mtxn, req, worker, sess, resp, nreq, submitted,
                    database, standalone >>

\* (mutant) the user id is kept in one place for all clients
Finish_with_shared_session(c, outcome) ==
    /\ sess' = [d \in Clients |-> outcome.sess]
    /\ resp' = [resp EXCEPT ![c] = [outcome.resp EXCEPT !.route = req[c].route]]
    /\ ret' = [ret EXCEPT ![c] = "none"]
    /\ pc' = [pc EXCEPT ![c] = "idle"]
    /\ req' = [req EXCEPT ![c] = NoRequest]

\* the response is sent: the cookie and the response reach the client
Finish(c, outcome) ==
    /\ sess' = [sess EXCEPT ![c] = outcome.sess]
    /\ resp' = [resp EXCEPT ![c] = [outcome.resp EXCEPT !.route = req[c].route]]
    /\ ret' = [ret EXCEPT ![c] = "none"]
    /\ pc' = [pc EXCEPT ![c] = "idle"]
    /\ req' = [req EXCEPT ![c] = NoRequest]

HandleIndex(c) ==
    /\ pc[c] = "handler"
    /\ req[c].route = "index"
    /\ \E up \in Lookup(sess[c]) : Finish(c, index(users, up, sess[c]))
    /\ UNCHANGED << users, test_users_initialized, test_users_lock, boot,
                    mtxn, worker, attempt, calls, txn, nreq, submitted,
                    database, standalone >>

\* the fields of a POST body are read when login() builds the LoginForm
HandleLogin(c) ==
    /\ pc[c] = "handler"
    /\ req[c].route = "login"
    /\ \E up1 \in Lookup(sess[c]), up2 \in Answers,
          f \in (IF req[c].method = "POST" THEN Forms ELSE {NoForm}) :
         /\ Finish(c, login(users, up1, up2, sess[c], [req[c] EXCEPT !.form = f]))
         /\ submitted' = [submitted EXCEPT ![c] = @ \/ Matches(users, f)]
    /\ UNCHANGED << users, test_users_initialized, test_users_lock, boot,
                    mtxn, worker, attempt, calls, txn, nreq,
                    database, standalone >>

HandleDashboard(c) ==
    /\ pc[c] = "handler"
    /\ req[c].route = "dashboard"
    /\ \E up \in Lookup(sess[c]) : Finish(c, dashboard(users, up, sess[c]))
    /\ UNCHANGED << users, test_users_initialized, test_users_lock, boot,
                    mtxn, worker, attempt, calls, txn, nreq, submitted,
                    database, standalone >>

HandleLogout(c) ==
    /\ pc[c] = "handler"
    /\ req[c].route = "logout"
    /\ \E up \in Lookup(sess[c]) :
         LET outcome == logout(users, up, sess[c])
         IN /\ Finish(c, outcome)
            /\ submitted' = [submitted EXCEPT ![c] = @ /\ outcome.sess = sess[c]]
    /\ UNCHANGED << users, test_users_initialized, test_users_lock, boot,
                    mtxn, worker, attempt, calls, txn, nreq,
                    database, standalone >>

Next ==
    \/ \E p \in Procs : MainStart(p)
    \/ \E p \in Procs : MainSeed(p)
    \/ \E c \in Clients : SessionClear(c)
    \/ \E c \in Clients : StartRequest(c)
    \/ \E c \in Clients : EnsureAcquire(c)
    \/ \E c \in Clients : SeedStatement(c)
    \/ \E c \in Clients : HandleIndex(c)
    \/ \E c \in Clients : HandleLogin(c)
    \/ \E c \in Clients : HandleDashboard(c)
    \/ \E c \in Clients : HandleLogout(c)

Spec == Init /\ [][Next]_vars

\* ------------------------------------------- two worker processes, seeding
\* Two worker processes of a WSGI server, which imports the module and so
\* skips the __main__ block, share the users table; each has its own flag
\* and lock.  The table starts empty and the clients only send the requests
\* that call ensure_test_users (GET / and GET /login).  The database is
\* unreliable or available from the start, and may become available for
\* good.
SeedInit ==
    /\ users = {}
    /\ test_users_initialized = [p \in Procs |-> FALSE]
    /\ test_users_lock = [p \in Procs |-> NoOne]
    /\ boot = [p \in Procs |-> "serving"]
    /\ mtxn = [p \in Procs |-> {}]
    /\ pc = [c \in Clients |-> "idle"]
    /\ req = [c \in Clients |-> NoRequest]
    /\ worker = [c \in Clients |-> CHOOSE p \in Procs : TRUE]
    /\ attempt = [c \in Clients |-> 0]
    /\ calls = [c \in Clients |-> 0]
    /\ txn = [c \in Clients |-> {}]
    /\ ret = [c \in Clients |-> "none"]
    /\ sess = [c \in Clients |-> NoUser]
    /\ resp = [c \in Clients |-> NoResponse]
    /\ nreq = 0
    /\ submitted = [c \in Clients |-> FALSE]
    /\ database \in {"unreliable", "up"}
    /\ standalone = NotRun

\* the MySQL server becomes available and stays so
Recover ==
    /\ database # "up"
    /\ database' = "up"
    /\ UNCHANGED << users, test_users_initialized, test_users_lock, boot, mtxn,
                    pc, req, worker, attempt, calls, txn, ret, sess, resp, nreq,
                    submitted, standalone >>

\* a request to / or a GET of /login
SeedRequest(c) ==
    /\ StartRequest(c)
    /\ req'[c].route \in {"index", "login"}
    /\ req'[c].method = "GET"

SeedNext ==
    \/ Recover
    \/ \E c \in Clients : SeedRequest(c)
    \/ \E c \in Clients : EnsureAcquire(c)
    \/ \E c \in Clients : SeedStatement(c)
    \/ \E c \in Clients : HandleIndex(c)
    \/ \E c \in Clients : HandleLogin(c)

\* Threads are scheduled fairly: a statement that can run is run, and a
\* thread waiting for a free lock gets it.  Nothing is assumed of the
\* clients or of the database.
SeedFairness ==
    \A c \in Clients : WF_vars(EnsureAcquire(c)) /\ WF_vars(SeedStatement(c))

SeedSpec == SeedInit /\ [][SeedNext]_vars /\ SeedFairness

\* ============================================================== claims
POST(f) == [route |-> "login", method |-> "POST", form |-> f]

ValidForms == { f \in Forms : validate_on_submit(POST(f)) }

RowOf(table, email) == CHOOSE r \in table : r.email = email

KnownEmail(table, email) == \E r \in table : r.email = email

\* a request of client c has just been answered by the handler of route
Answered(c, route) ==
    /\ pc[c] = "handler"
    /\ req[c].route = route
    /\ pc'[c] = "idle"

\* C1: a session holds a user id only if, since it was last cleared, its
\* client submitted a login form naming a row with that row's password; and
\* a submission naming no row, or a row with another password, leaves the
\* session as it was and, for an unauthenticated client, answers with the
\* login form, whatever the database does (stated of every submission the
\* handler may be about to read).
C1_IncorrectCredentialsNeverAuthenticate ==
    [](/\ \A c \in Clients : sess[c] # NoUser => submitted[c]
       /\ \A c \in Clients :
            pc[c] = "handler" /\ req[c] = POST(NoForm) =>
               \A f \in Forms, up1 \in BOOLEAN, up2 \in BOOLEAN :
                  ~Matches(users, f) =>
                     LET o == login(users, up1, up2, sess[c], POST(f))
                     IN /\ o.sess = sess[c]
                        /\ sess[c] = NoUser =>
                             o.resp.page = "login" /\ o.resp.status = 200)

\* one client is logged in while another one, on the same table, was
\* refused with a known email
C1_Witness ==
    \E c \in Clients, d \in Clients :
       /\ sess[c] # NoUser
       /\ sess[d] = NoUser /\ ~submitted[d]
       /\ resp[d].flash = InvalidCredentials
       /\ KnownEmail(users, resp[d].email)

\* C2 as stated: for an unauthenticated client, a submission with a
\* well-formed email of an existing user and that user's password sets the
\* session to that user and redirects to the dashboard, and the dashboard
\* request that follows is served -- whatever the database does.
C2_Original ==
    \A c \in Clients :
       pc[c] = "handler" /\ req[c] = POST(NoForm) /\ sess[c] = NoUser =>
          \A f \in ValidForms, up2 \in BOOLEAN, up3 \in BOOLEAN :
             Matches(users, f) =>
                LET o == login(users, TRUE, up2, sess[c], POST(f))
                IN /\ o.sess = RowOf(users, f.email).id
                   /\ o.resp = Redirect("dashboard", LoginSuccess)
                   /\ dashboard(users, up3, o.sess).resp.page = "dashboard"

\* C2 amended: the same, provided the database answers the lookup by email
\* of the login request and the lookup by id of the dashboard request.
C2_CorrectCredentialsAuthenticate ==
    \A c \in Clients :
       pc[c] = "handler" /\ req[c] = POST(NoForm) /\ sess[c] = NoUser =>
          \A f \in ValidForms :
             Matches(users, f) =>
                LET o == login(users, TRUE, TRUE, sess[c], POST(f))
                    row == RowOf(users, f.email)
                IN /\ o.sess = row.id
                   /\ o.resp = Redirect("dashboard", LoginSuccess)
                   /\ dashboard(users, TRUE, o.sess).resp =
                        Render("dashboard", "",
                               [id |-> row.id, name |-> row.name, email |-> row.email], "")

\* a client that logged in has been served the dashboard
C2_Witness ==
    \E c \in Clients :
       /\ submitted[c]
       /\ sess[c] # NoUser
       /\ resp[c].route = "dashboard"
       /\ resp[c].page = "dashboard"
       /\ resp[c].user.id = sess[c]

\* C3: a dashboard request of a client whose session holds no user id is
\* answered with the redirect to the login page, never with the dashboard,
\* and leaves the session empty.
C3_DashboardRequiresSession ==
    [][\A c \in Clients :
         Answered(c, "dashboard") /\ sess[c] = NoUser =>
            /\ resp'[c] = [Redirect("login", LoginRequired) EXCEPT !.route = "dashboard"]
            /\ sess'[c] = NoUser]_vars

\* a client without a session asked for the dashboard of a table with users
C3_Witness ==
    \E c \in Clients :
       /\ users # {}
       /\ sess[c] = NoUser
       /\ resp[c].route = "dashboard"
       /\ resp[c].to = "login"

\* C4 as stated: a logout request of a client whose session holds a user id
\* leaves the session empty.
C4_Original ==
    [][\A c \in Clients :
         Answered(c, "logout") /\ sess[c] # NoUser => sess'[c] = NoUser]_vars

\* C4 amended: a logout request of a client whose session holds a user id,
\* when the lookup of that user succeeds, empties the session and redirects
\* to the home page; and while the session is empty every dashboard request
\* is redirected to the login page, the session staying empty until a login
\* request is answered with the success redirect.
C4_LogoutInvalidatesSession ==
    /\ [](\A c \in Clients :
            sess[c] # NoUser =>
               logout(users, TRUE, sess[c]) = Outcome(NoUser, Redirect("index", LoggedOut)))
    /\ [][\A c \in Clients :
            /\ Answered(c, "logout") /\ resp'[c].to = "index" => sess'[c] = NoUser
            /\ Answered(c, "dashboard") /\ sess[c] = NoUser =>
                  resp'[c].to = "login" /\ resp'[c].page # "dashboard"
            /\ sess[c] = NoUser /\ sess'[c] # NoUser =>
                  Answered(c, "login") /\ resp'[c].flash = LoginSuccess]_vars

\* a logged-in client has logged out
C4_Witness ==
    \E c \in Clients :
       /\ resp[c].route = "logout"
       /\ resp[c].to = "index"
       /\ resp[c].flash = LoggedOut
       /\ sess[c] = NoUser

\* a whole create_test_users call that meets no database error, with the
\* salts drawn for the two hashes
SeedRun(table, s1, s2) ==
    LET a == create_test_users("connect", {}, table, TRUE, s1)
        b == create_test_users(a.pos, a.txn, a.users, TRUE, s1)
        c == IF b.pos = "return" THEN b
             ELSE create_test_users(b.pos, b.txn, b.users, TRUE, s1)
        d == IF c.pos = "return" THEN c
             ELSE create_test_users(c.pos, c.txn, c.users, TRUE, s2)
        e == IF d.pos = "return" THEN d
             ELSE create_test_users(d.pos, d.txn, d.users, TRUE, s2)
    IN e.users

RowsWith(rows, email) == { r \in rows : r.email = email }

OneRowPerDemoEmail(table) ==
    \A e \in DemoEmails : Cardinality(RowsWith(table, e)) <= 1

\* a demo user inserted by an earlier seed
DemoRow(i) ==
    [id |-> i + 1, name |-> test_users[i].name, email |-> test_users[i].email,
     password_hash |-> generate_password_hash(test_users[i].password, 1)]

\* users tables: empty, partly or wholly seeded, with or without other rows
Tables == SUBSET {ExternalUser, DemoRow(1), DemoRow(2)}

SeedStarting ==
    \/ \E p \in Procs : boot[p] = "connect"
    \/ \E c \in Clients : pc[c] = "connect"

\* C5: the table never holds two rows for a demo email; whenever a seed run
\* starts, a second run on the table the first leaves changes nothing, and
\* the same holds from every table of Tables when the __main__ block is
\* about to seed; and no step ever changes a table that is not empty, the
\* only change being the commit of the two demo rows.
C5_SeedIdempotent ==
    /\ [](OneRowPerDemoEmail(users))
    /\ []((\E p \in Procs : boot[p] = "connect") =>
            \A table \in Tables, s1 \in Salts, s2 \in Salts :
               LET once == SeedRun(table, s1, s2)
               IN /\ \A s3 \in Salts, s4 \in Salts : SeedRun(once, s3, s4) = once
                  /\ OneRowPerDemoEmail(once))
    /\ [](SeedStarting =>
            \A s1 \in Salts, s2 \in Salts :
               LET once == SeedRun(users, s1, s2)
               IN /\ \A s3 \in Salts, s4 \in Salts : SeedRun(once, s3, s4) = once
                  /\ OneRowPerDemoEmail(once)
                  /\ once # {})
    /\ [][users' # users =>
            /\ users = {}
            /\ Cardinality(users') = 2
            /\ { r.email : r \in users' } = DemoEmails]_vars

\* a request runs the seed on the table the __main__ block has seeded
C5_Witness ==
    \E c \in Clients :
       /\ pc[c] = "count"
       /\ { r.email : r \in users } = DemoEmails

\* the rows inserted for an email, committed or not, each counted with the
\* connection that inserted it
Inserted(email) ==
    { <<"table", r>> : r \in RowsWith(users, email) }
    \cup UNION { { <<"main", p, r>> : r \in RowsWith(mtxn[p], email) } : p \in Procs }
    \cup UNION { { <<"request", c, r>> : r \in RowsWith(txn[c], email) } : c \in Clients }

\* C6: under every interleaving of the requests of one process, each demo
\* user is inserted at most once: committed or pending, there is never more
\* than one row for a demo email, and no request is ever about to insert a
\* demo user that is in the table or pending in another connection.
C6_NoDuplicateSeedingUnderConcurrency ==
    /\ \A e \in DemoEmails : Cardinality(Inserted(e)) <= 1
    /\ \A c \in Clients :
          /\ pc[c] = "insert1" => Inserted(test_users[1].email) = {}
          /\ pc[c] = "insert2" => Inserted(test_users[2].email) = {}

\* one first request is about to commit the demo rows while another one
\* waits for the lock
C6_Witness ==
    \E c \in Clients, d \in Clients :
       /\ pc[c] = "commit"
       /\ Cardinality(txn[c]) = 2
       /\ pc[d] = "acquire"

\* C7: an invocation of ensure_test_users calls create_test_users at most 5
\* times; it makes a further call only after a call that returned False; a
\* call that returns True sets the flag and ends the invocation; and the
\* flag is set by nothing else.
C7_AtMostFiveAttempts ==
    /\ [](\A c \in Clients : calls[c] <= MaxAttempts)
    /\ [][\A c \in Clients :
            /\ calls'[c] = calls[c] + 1 /\ calls[c] >= 1 => ret'[c] = "false"
            /\ pc[c] \in CtuPositions /\ ret'[c] = "true" =>
                  /\ test_users_initialized'[worker[c]]
                  /\ pc'[c] = "handler"
            /\ pc[c] \in CtuPositions /\ ret'[c] = "false" =>
                  test_users_initialized'[worker[c]] = test_users_initialized[worker[c]]
            /\ \A p \in Procs :
                  test_users_initialized'[p] # test_users_initialized[p] =>
                     \E d \in Clients :
                        worker[d] = p /\ pc[d] \in CtuPositions /\ ret'[d] = "true"]_vars

\* the fifth attempt of an invocation is about to commit
C7_Witness ==
    \E c \in Clients : calls[c] = MaxAttempts /\ pc[c] = "commit"

\* C8: once the flag of a process is set it stays set, no request of that
\* process is inside or enters create_test_users, a request to / or /login
\* goes straight to its handler, and the table no longer changes.
C8_NoOpOnceInitialized ==
    [][\A p \in Procs :
         test_users_initialized[p] =>
            /\ test_users_initialized'[p]
            /\ users' = users
            /\ \A c \in Clients :
                  /\ worker'[c] = p => pc'[c] \notin CtuPositions /\ calls'[c] = 0
                  /\ pc[c] = "idle" /\ pc'[c] # "idle" /\ worker'[c] = p =>
                        pc'[c] = "handler"
                  /\ pc[c] = "acquire" /\ pc'[c] # "acquire" /\ worker[c] = p =>
                        pc'[c] = "handler" /\ test_users_lock'[p] = NoOne]_vars

\* with the flag set, a request to / or /login has passed ensure_test_users
\* without an attempt
C8_Witness ==
    \E c \in Clients :
       /\ test_users_initialized[worker[c]]
       /\ pc[c] = "handler"
       /\ req[c].route \in {"index", "login"}
       /\ ret[c] = "none"

\* an invocation of ensure_test_users has ended after MaxAttempts failures
AllAttemptsFailed(c) ==
    /\ pc[c] \in CtuPositions
    /\ pc'[c] = "handler"
    /\ ret'[c] = "false"

\* C9 as stated: when every attempt of an invocation fails the flag stays
\* unset and the request goes on to its handler; and a request that arrives
\* while the flag is unset after such a failure runs the seed again.
C9_Original ==
    [][\A c \in Clients :
         /\ AllAttemptsFailed(c) =>
               /\ calls[c] = MaxAttempts
               /\ ~test_users_initialized'[worker[c]]
         /\ \A d \in Clients :
               /\ pc[d] = "handler" /\ ret[d] = "false"
               /\ pc[c] = "idle" /\ pc'[c] # "idle"
               /\ ~test_users_initialized[worker'[c]]
               => pc'[c] = "acquire"]_vars

\* C9 amended: when every attempt of an invocation fails the flag stays
\* unset, the lock is freed and the request goes on to its handler; and a
\* request to / or /login that arrives while the flag is unset enters
\* ensure_test_users and, if the flag is still unset when it holds the lock,
\* calls create_test_users again.
C9_FailedSeedIsRetried ==
    [][\A c \in Clients :
         /\ AllAttemptsFailed(c) =>
               /\ calls[c] = MaxAttempts
               /\ ~test_users_initialized'[worker[c]]
               /\ test_users_lock'[worker[c]] = NoOne
         /\ /\ pc[c] = "idle" /\ pc'[c] # "idle"
            /\ req'[c].route \in {"index", "login"}
            /\ ~test_users_initialized[worker'[c]]
            => pc'[c] = "acquire"
         /\ /\ pc[c] = "acquire" /\ pc'[c] # "acquire"
            /\ ~test_users_initialized[worker[c]]
            => pc'[c] = "connect" /\ calls'[c] = 1]_vars

\* after one request has used up its attempts, another one is seeding
C9_Witness ==
    \E c \in Clients, d \in Clients :
       /\ pc[d] = "handler" /\ ret[d] = "false"
       /\ ~test_users_initialized[worker[d]]
       /\ pc[c] \in CtuPositions

WithoutEmail(response) == [response EXCEPT !.email = ""]

\* C10: for an unauthenticated client, a validated submission whose email
\* names no row and one whose email names a row with another password get
\* the same answer but for the email they typed -- status 200, the login
\* form, the one generic message -- and both leave the session empty,
\* whatever the database does.
C10_NoUserEnumeration ==
    [](\A c \in Clients :
          pc[c] = "handler" /\ req[c] = POST(NoForm) /\ sess[c] = NoUser =>
             \A f1 \in ValidForms, f2 \in ValidForms, up1 \in BOOLEAN, up2 \in BOOLEAN :
                /\ ~KnownEmail(users, f1.email)
                /\ KnownEmail(users, f2.email) /\ ~Matches(users, f2)
                => LET o1 == login(users, TRUE, up1, sess[c], POST(f1))
                       o2 == login(users, TRUE, up2, sess[c], POST(f2))
                   IN /\ o1.sess = NoUser /\ o2.sess = NoUser
                      /\ WithoutEmail(o1.resp) = WithoutEmail(o2.resp)
                      /\ o1.resp = Render("login", InvalidCredentials, None, f1.email))

\* on one table, one client was refused with an email of no row and another
\* with the email of a row
C10_Witness ==
    \E c \in Clients, d \in Clients :
       /\ sess[c] = NoUser /\ sess[d] = NoUser
       /\ resp[c].flash = InvalidCredentials
       /\ resp[d].flash = InvalidCredentials
       /\ ~KnownEmail(users, resp[c].email)
       /\ KnownEmail(users, resp[d].email)

\* C11: when the query of get_user_by_email raises, the lookup returns no
\* user, and the login request of a client that is not authenticated ends
\* as one with a wrong password does: status 200, the login form with the
\* generic message, the session as it was, whatever the submitted form.
C11_LookupErrorIsUserNotFound ==
    [](\A c \in Clients :
          pc[c] = "handler" /\ req[c] = POST(NoForm) =>
             \A f \in ValidForms, up1 \in Lookup(sess[c]) :
                ~is_authenticated(current_user(users, up1, sess[c])) =>
                   LET o == login(users, up1, FALSE, sess[c], POST(f))
                   IN /\ get_user_by_email(users, FALSE, f.email) = None
                      /\ o.sess = sess[c]
                      /\ o.resp = Render("login", InvalidCredentials, None, f.email)
                      /\ \A g \in ValidForms :
                            /\ g.email = f.email
                            /\ KnownEmail(users, g.email) /\ ~Matches(users, g)
                            => o = login(users, up1, TRUE, sess[c], POST(g)))

\* a client that submitted the email and password of a row was refused
C11_Witness ==
    \E c \in Clients :
       /\ submitted[c]
       /\ sess[c] = NoUser
       /\ resp[c].route = "login"
       /\ resp[c].status = 200
       /\ resp[c].flash = InvalidCredentials
       /\ KnownEmail(users, resp[c].email)

\* what the dashboard shows of a row
Shown(row) == [id |-> row.id, name |-> row.name, email |-> row.email]

\* C12: rows are told apart by id and by email; a login that succeeds with
\* email e puts the id of the row with email e in the session, and the
\* dashboard served to that session shows that row; a session holds the id
\* of a row as long as it lasts, because the table does not change while a
\* session holds an id; and every dashboard a step serves shows the row
\* whose id the session holds and keeps the session.
C12_SessionHoldsAuthenticatedUser ==
    /\ [](\A r1 \in users, r2 \in users :
            r1.id = r2.id \/ r1.email = r2.email => r1 = r2)
    /\ [](\A c \in Clients : sess[c] # NoUser => \E r \in users : r.id = sess[c])
    /\ [](\A c \in Clients :
            pc[c] = "handler" /\ req[c] = POST(NoForm) =>
               \A f \in ValidForms, up1 \in Lookup(sess[c]), up2 \in BOOLEAN :
                  LET o == login(users, up1, up2, sess[c], POST(f))
                  IN o.sess # sess[c] =>
                        /\ KnownEmail(users, f.email)
                        /\ o.sess = RowOf(users, f.email).id
                        /\ \A up3 \in BOOLEAN :
                              LET d == dashboard(users, up3, o.sess)
                              IN d.resp.page = "dashboard" =>
                                    d.resp.user = Shown(RowOf(users, f.email)))
    /\ [][/\ (\E c \in Clients : sess[c] # NoUser) => users' = users
          /\ \A c \in Clients :
                /\ Answered(c, "dashboard") /\ resp'[c].page = "dashboard" =>
                      /\ sess'[c] = sess[c]
                      /\ \E r \in users : r.id = sess[c] /\ resp'[c].user = Shown(r)
                /\ Answered(c, "login") /\ sess'[c] # sess[c] =>
                      \E f \in ValidForms :
                         /\ Matches(users, f)
                         /\ sess'[c] = RowOf(users, f.email).id]_vars

\* two clients are logged in as different users, and one of them has been
\* served the dashboard with the row of its session
C12_Witness ==
    \E c \in Clients, d \in Clients :
       /\ sess[c] # NoUser /\ sess[d] # NoUser /\ sess[c] # sess[d]
       /\ resp[c].page = "dashboard"
       /\ \E r \in users : r.id = sess[c] /\ resp[c].user = Shown(r)

\* C13: every step keeps every row of the users table as it is; a step
\* that answers a request (index, login, dashboard, logout, with their
\* lookups) leaves the table unchanged; and a step that changes the table
\* is the commit of a seed and adds rows of the two demo users only.
C13_UserRowsAreReadOnly ==
    [][/\ users \subseteq users'
       /\ \A c \in Clients : pc[c] = "handler" /\ pc'[c] = "idle" => users' = users
       /\ users' # users =>
             /\ \/ \E c \in Clients : pc[c] = "commit" /\ users' = users \cup txn[c]
                \/ \E p \in Procs : boot[p] = "commit" /\ users' = users \cup mtxn[p]
             /\ \A r \in users' \ users :
                   \E i \in 1..Len(test_users) :
                      /\ r.name = test_users[i].name
                      /\ r.email = test_users[i].email]_vars

\* on the seeded table, with the flag set, a client has logged in and been
\* served the dashboard
C13_Witness ==
    \E c \in Clients :
       /\ test_users_initialized[worker[c]]
       /\ { r.email : r \in users } = DemoEmails
       /\ sess[c] # NoUser
       /\ resp[c].page = "dashboard"

AnswerTo(route, response) == [response EXCEPT !.route = route]

\* C14 as stated: a logout request of a client whose session holds no user
\* id is redirected to login and leaves the session as it is; one of a
\* client whose session holds a user id empties the session and is
\* redirected to the home page.
C14_Original ==
    [][\A c \in Clients :
         Answered(c, "logout") =>
            IF sess[c] = NoUser
            THEN /\ sess'[c] = sess[c]
                 /\ resp'[c] = AnswerTo("logout", Redirect("login", LoginRequired))
            ELSE /\ sess'[c] = NoUser
                 /\ resp'[c] = AnswerTo("logout", Redirect("index", LoggedOut))]_vars

\* C14 amended: a logout request of a client whose session holds no user
\* id, or a user id that load_user does not find, is redirected to login
\* and leaves the session as it is; one of a client whose user load_user
\* finds empties the session and is redirected to the home page; and a
\* logout request has no other outcome.
C14_LogoutIsAuthRequired ==
    /\ [](\A c \in Clients :
            /\ \A up \in BOOLEAN :
                  ~is_authenticated(current_user(users, up, sess[c])) =>
                     logout(users, up, sess[c]) =
                        Outcome(sess[c], Redirect("login", LoginRequired))
            /\ \A up \in BOOLEAN :
                  is_authenticated(current_user(users, up, sess[c])) =>
                     logout(users, up, sess[c]) =
                        Outcome(NoUser, Redirect("index", LoggedOut))
            /\ sess[c] = NoUser =>
                  \A up \in BOOLEAN : ~is_authenticated(current_user(users, up, sess[c]))
            /\ sess[c] # NoUser =>
                  /\ is_authenticated(current_user(users, TRUE, sess[c]))
                  /\ ~is_authenticated(current_user(users, FALSE, sess[c])))
    /\ [][\A c \in Clients :
            Answered(c, "logout") =>
               \/ /\ sess'[c] = sess[c]
                  /\ resp'[c] = AnswerTo("logout", Redirect("login", LoginRequired))
               \/ /\ sess[c] # NoUser
                  /\ sess'[c] = NoUser
                  /\ resp'[c] = AnswerTo("logout", Redirect("index", LoggedOut))]_vars

\* one client was logged out and sent to the home page, another one, never
\* logged in, asked for logout and was sent to the login page
C14_Witness ==
    \E c \in Clients, d \in Clients :
       /\ resp[c].route = "logout" /\ resp[c].to = "index"
       /\ sess[c] = NoUser
       /\ resp[d].route = "logout" /\ resp[d].to = "login"
       /\ sess[d] = NoUser /\ ~submitted[d]

RowWithId(table, user_id) == CHOOSE r \in table : r.id = user_id

\* C15 as stated: every dashboard request of a client whose session holds
\* a user id is served with that user's data and keeps the session.
C15_Original ==
    [][\A c \in Clients :
         Answered(c, "dashboard") /\ sess[c] # NoUser =>
            /\ sess'[c] = sess[c]
            /\ resp'[c] = AnswerTo("dashboard",
                              Render("dashboard", "", Shown(RowWithId(users, sess[c])), ""))]_vars

\* C15 amended: while a session holds a user id, a dashboard request whose
\* lookup by id is answered is served with the row of that id, and one
\* whose lookup fails is redirected to login; either way the session is
\* kept.  A login request by a client whose user is found is redirected
\* to the dashboard whatever it submits.  The session loses or changes its
\* user id only when it is cleared, by a logout request, or by a login
\* request; index and dashboard requests keep it, and the row stays in
\* the table.
C15_SessionPersists ==
    /\ [](\A c \in Clients :
            sess[c] # NoUser =>
               /\ \E r \in users : r.id = sess[c]
               /\ dashboard(users, TRUE, sess[c]) =
                     Outcome(sess[c],
                             Render("dashboard", "", Shown(RowWithId(users, sess[c])), ""))
               /\ dashboard(users, FALSE, sess[c]) = unauthorized(sess[c])
               /\ pc[c] = "handler" /\ req[c].route = "login" =>
                     \A f \in Forms, up2 \in BOOLEAN :
                        login(users, TRUE, up2, sess[c], POST(f)) =
                           Outcome(sess[c], Redirect("dashboard", "")))
    /\ [][\A c \in Clients :
            sess[c] # NoUser =>
               /\ Answered(c, "dashboard") =>
                     /\ sess'[c] = sess[c]
                     /\ \/ resp'[c] = AnswerTo("dashboard",
                                         Render("dashboard", "",
                                                Shown(RowWithId(users, sess[c])), ""))
                        \/ resp'[c] = AnswerTo("dashboard", Redirect("login", LoginRequired))
               /\ Answered(c, "index") => sess'[c] = sess[c]
               /\ sess'[c] # sess[c] =>
                     \/ pc[c] = "idle" /\ pc'[c] = "idle" /\ sess'[c] = NoUser
                     \/ Answered(c, "logout") /\ sess'[c] = NoUser
                     \/ Answered(c, "login") /\ sess'[c] # NoUser
               /\ RowWithId(users, sess[c]) \in users']_vars

\* a client has made every request so far, is logged in, and its last
\* request, for the dashboard, was served with the row of its session
C15_Witness ==
    \E c \in Clients :
       /\ nreq = MaxRequests
       /\ \A d \in Clients \ {c} : resp[d] = NoResponse /\ pc[d] = "idle"
       /\ sess[c] # NoUser
       /\ resp[c] = AnswerTo("dashboard",
                             Render("dashboard", "", Shown(RowWithId(users, sess[c])), ""))

\* an account that some client was refused for
Refused(email) ==
    \E d \in Clients :
       /\ resp[d].route = "login"
       /\ resp[d].flash = InvalidCredentials
       /\ resp[d].email = email

\* a login request was answered with the generic failure
LoginRefused(c) ==
    /\ Answered(c, "login")
    /\ resp'[c].flash = InvalidCredentials

\* a refused login changes nothing but the answer its client gets: no
\* session, no row, no flag, no lock and nothing of another client
NothingKept(c) ==
    /\ sess' = sess
    /\ UNCHANGED << users, test_users_initialized, test_users_lock, boot, mtxn,
                    worker, attempt, calls, txn, nreq >>
    /\ \A d \in Clients \ {c} :
          /\ pc'[d] = pc[d] /\ req'[d] = req[d] /\ resp'[d] = resp[d]
          /\ ret'[d] = ret[d] /\ submitted'[d] = submitted[d]

\* C16: a refused login leaves the session as it was and keeps no state;
\* and however many logins were refused before, a login with the email and
\* password of a row that is about to be handled for an unauthenticated
\* client has the outcome of a first attempt: it succeeds when the
\* database answers the lookup, and is refused, keeping no state either,
\* when the lookup fails.
C16_NoLockout ==
    /\ [](\A c \in Clients :
            pc[c] = "handler" /\ req[c] = POST(NoForm) /\ sess[c] = NoUser =>
               \A f \in ValidForms :
                  Matches(users, f) =>
                     /\ login(users, TRUE, TRUE, sess[c], POST(f)) =
                           Outcome(RowOf(users, f.email).id,
                                   Redirect("dashboard", LoginSuccess))
                     /\ login(users, TRUE, FALSE, sess[c], POST(f)) =
                           Outcome(sess[c],
                                   Render("login", InvalidCredentials, None, f.email)))
    /\ [][\A c \in Clients : LoginRefused(c) => NothingKept(c)]_vars

\* a client was refused with the email of a row and a password that is not
\* that row's, and now a login of another client is about to be handled
C16_Witness ==
    \E c \in Clients, d \in Clients :
       /\ pc[c] = "handler" /\ req[c] = POST(NoForm) /\ sess[c] = NoUser
       /\ sess[d] = NoUser /\ ~submitted[d]
       /\ KnownEmail(users, resp[d].email)
       /\ Refused(resp[d].email)

\* strings sent as the email of a login form in place of an address
MaliciousInputs == { "' OR '1'='1", "'; DROP TABLE users; --", "admin'--" }

\* submissions that fail validation: no email, no password, or an email
\* that is not an address
RejectedForms ==
    { f \in [email : FormEmails \cup MaliciousInputs,
             password : FormPasswords \cup {"any_password"}] :
        f.email = "" \/ f.password = "" \/ f.email \notin WellFormedEmails }

\* C17: a submission without email, without password or with an email that
\* is not a well-formed address, sent by a client that is not
\* authenticated, gets the login form back with status 200 and no message
\* of the credential check, and leaves the session as it was, whatever the
\* table holds and whatever the database does.
C17_InvalidSubmissionRejected ==
    [](\A c \in Clients :
          pc[c] = "handler" /\ req[c] = POST(NoForm) =>
             \A f \in RejectedForms, up1 \in Lookup(sess[c]), up2 \in BOOLEAN :
                ~is_authenticated(current_user(users, up1, sess[c])) =>
                   /\ login(users, up1, up2, sess[c], POST(f)) =
                         Outcome(sess[c], Render("login", "", None, f.email))
                   /\ ~validate_on_submit(POST(f)))

\* on a table with users, a client without a session got the login form
\* back for an email that is not an address
C17_Witness ==
    \E c \in Clients :
       /\ users # {}
       /\ sess[c] = NoUser
       /\ resp[c] = AnswerTo("login", Render("login", "", None, "invalid_email_format"))

\* C18 as stated: a home page request of a client whose session holds a
\* user id is redirected to the dashboard; one of a client whose session
\* holds none gets the home page with status 200; the session is kept.
C18_Original ==
    [][\A c \in Clients :
         Answered(c, "index") =>
            /\ sess'[c] = sess[c]
            /\ resp'[c] = AnswerTo("index",
                              IF sess[c] # NoUser
                              THEN Redirect("dashboard", "")
                              ELSE Render("index", "", None, ""))]_vars

\* C18 amended: a home page request of a client whose user load_user
\* finds is redirected to the dashboard; one of a client whose session
\* holds no user id, or a user id that load_user does not find, gets the
\* home page with status 200; the session is kept either way, and a home
\* page request has no other outcome.
C18_IndexRedirectsAuthenticated ==
    /\ [](\A c \in Clients, up \in BOOLEAN :
            /\ is_authenticated(current_user(users, up, sess[c])) =>
                  index(users, up, sess[c]) = Outcome(sess[c], Redirect("dashboard", ""))
            /\ ~is_authenticated(current_user(users, up, sess[c])) =>
                  index(users, up, sess[c]) =
                     Outcome(sess[c], Render("index", "", None, ""))
            /\ is_authenticated(current_user(users, up, sess[c]))
                  <=> sess[c] # NoUser /\ up)
    /\ [][\A c \in Clients :
            Answered(c, "index") =>
               /\ sess'[c] = sess[c]
               /\ \/ resp'[c] = AnswerTo("index", Render("index", "", None, ""))
                  \/ /\ sess[c] # NoUser
                     /\ resp'[c] = AnswerTo("index", Redirect("dashboard", ""))]_vars

\* a logged-in client asked for the home page and was redirected to the
\* dashboard; a client that never logged in got the home page
C18_Witness ==
    \E c \in Clients, d \in Clients :
       /\ sess[c] # NoUser
       /\ resp[c] = AnswerTo("index", Redirect("dashboard", ""))
       /\ sess[d] = NoUser /\ ~submitted[d]
       /\ resp[d] = AnswerTo("index", Render("index", "", None, ""))

\* the two demo users as the contract names them
DemoUsers ==
    { [name |-> "Yamada Taro", email |-> "yamada@example.com"],
      [name |-> "Sato Hanako", email |-> "sato@example.com"] }

\* the table holds exactly the two demo users, each with a hash of
\* password123, and with the database answering each of them logs in with
\* that password and is shown its own name on the dashboard
SeededWithDemoUsers(table) ==
    /\ Cardinality(table) = 2
    /\ { [name |-> r.name, email |-> r.email] : r \in table } = DemoUsers
    /\ \A r \in table :
          /\ check_password_hash(r.password_hash, "password123")
          /\ LET o == login(table, TRUE, TRUE, NoUser,
                            POST([email |-> r.email, password |-> "password123"]))
             IN /\ o = Outcome(r.id, Redirect("dashboard", LoginSuccess))
                /\ dashboard(table, TRUE, o.sess).resp =
                      Render("dashboard", "", Shown(r), "")

\* C19: a seed run that starts on the empty table and meets no database
\* error leaves exactly the two demo users, each with a hash of
\* password123, with which each of them logs in and sees its own name; and
\* every step that takes the table from empty to not empty leaves it so.
C19_SeedInsertsDemoUsers ==
    /\ [](SeedStarting /\ users = {} =>
            \A s1 \in Salts, s2 \in Salts : SeededWithDemoUsers(SeedRun(users, s1, s2)))
    /\ []({ r.email : r \in users } = DemoEmails => SeededWithDemoUsers(users))
    /\ [][users = {} /\ users' # {} => SeededWithDemoUsers(users')]_vars

\* on the table the seed filled, Sato Hanako has logged in with the demo
\* password and sees her name on the dashboard
C19_Witness ==
    \E c \in Clients :
       /\ Cardinality(users) = 2
       /\ submitted[c]
       /\ resp[c].page = "dashboard"
       /\ resp[c].user.name = "Sato Hanako"
       /\ resp[c].user.email = "sato@example.com"

\* passwords hashed and tried
Passwords == FormPasswords \cup {"wrong_password"}

\* the seed is about to hash a password
Hashing ==
    \/ \E p \in Procs : boot[p] \in {"insert1", "insert2"}
    \/ \E c \in Clients : pc[c] \in {"insert1", "insert2"}

LoggingIn == { c \in Clients : pc[c] = "handler" /\ req[c] = POST(NoForm) }

InLoop(p) == { c \in Clients : worker[c] = p /\ pc[c] \in CtuPositions }

\* C22: in each process at most one request is inside the retry loop, and
\* the one that is holds the lock, from its first attempt to the end of its
\* last; the lock is held by nobody else; a request leaves the wait for
\* the lock only when the lock is free, and then, if the flag has been set
\* meanwhile, it goes on to its handler without taking the lock or making
\* an attempt, and otherwise takes the lock and makes its first attempt.
C22_MutualExclusionAndRecheck ==
    /\ [](\A p \in Procs :
            /\ Cardinality(InLoop(p)) <= 1
            /\ \A c \in InLoop(p) : test_users_lock[p] = c
            /\ test_users_lock[p] # NoOne => test_users_lock[p] \in InLoop(p))
    /\ [][\A c \in Clients :
            /\ pc[c] \in CtuPositions /\ pc'[c] \in CtuPositions =>
                  test_users_lock'[worker[c]] = c
            /\ pc[c] \in CtuPositions /\ pc'[c] \notin CtuPositions =>
                  pc'[c] = "handler" /\ test_users_lock'[worker[c]] = NoOne
            /\ pc[c] = "acquire" /\ pc'[c] # "acquire" =>
                  /\ test_users_lock[worker[c]] = NoOne
                  /\ IF test_users_initialized[worker[c]]
                     THEN /\ pc'[c] = "handler"
                          /\ calls'[c] = 0
                          /\ test_users_lock' = test_users_lock
                          /\ users' = users
                     ELSE /\ pc'[c] = "connect"
                          /\ test_users_lock'[worker[c]] = c]_vars

\* a request is waiting for the lock although the flag is set: another
\* request has succeeded since this one read the flag
C22_Witness ==
    \E c \in Clients :
       /\ pc[c] = "acquire"
       /\ test_users_initialized[worker[c]]

DemoRows(table) == { r \in table : r.email \in DemoEmails }

\* C23: the table holds none or both of the demo users, never one; at
\* every statement of a seed attempt, of a request or of the __main__
\* block, a database error ends the attempt with False, the table as it
\* was and nothing pending; an attempt of a request that returns False has
\* left the table as it was; and the table changes only in a commit that
\* adds both rows at once and returns True.
C23_SeedBatchIsAtomic ==
    /\ [](Cardinality(DemoRows(users)) \in {0, 2})
    /\ [](\A c \in Clients, s \in Salts :
            pc[c] \in CtuPositions =>
               create_test_users(pc[c], txn[c], users, FALSE, s) =
                  CtuResult("return", {}, users, FALSE))
    /\ [](\A p \in Procs, s \in Salts :
            boot[p] \in CtuPositions =>
               create_test_users(boot[p], mtxn[p], users, FALSE, s) =
                  CtuResult("return", {}, users, FALSE))
    /\ [][/\ \A c \in Clients :
               pc[c] \in CtuPositions /\ pc'[c] \notin CtuPositions \cup {pc[c]}
               /\ ret'[c] = "false"
               => users' = users /\ txn'[c] = {}
          /\ \A c \in Clients :
               pc[c] \in CtuPositions /\ calls'[c] = calls[c] + 1 =>
                  /\ pc'[c] = "connect"
                  /\ ret'[c] = "false" /\ users' = users /\ txn'[c] = {}
          /\ users' # users =>
               /\ Cardinality(DemoRows(users)) = 0
               /\ Cardinality(DemoRows(users')) = 2
               /\ \/ \E c \in Clients : pc[c] = "commit" /\ ret'[c] = "true"
                  \/ \E p \in Procs : boot[p] = "commit"]_vars

\* after an attempt that failed, the next attempt has inserted the first
\* demo row, uncommitted, on the empty table
C23_Witness ==
    \E c \in Clients :
       /\ users = {}
       /\ ret[c] = "false"
       /\ pc[c] = "insert2"
       /\ Cardinality(txn[c]) = 1

\* C26: whenever the flag of a process is set the users table is not
\* empty; the step that sets the flag ends a create_test_users call that
\* returned True, having counted a row or committed the two demo rows; and
\* no step removes a row.
C26_FlagImpliesNonEmptyTable ==
    /\ [](\A p \in Procs : test_users_initialized[p] => users # {})
    /\ [][/\ users \subseteq users'
          /\ \A p \in Procs :
                ~test_users_initialized[p] /\ test_users_initialized'[p] =>
                   \E c \in Clients :
                      /\ worker[c] = p
                      /\ ret'[c] = "true"
                      /\ \/ pc[c] = "count" /\ users # {} /\ users' = users
                         \/ pc[c] = "commit" /\ users = {}
                            /\ Cardinality(DemoRows(users')) = 2]_vars

\* the flag is set and the request whose commit of the two demo rows set
\* it is at its handler
C26_Witness ==
    \E c \in Clients :
       /\ test_users_initialized[worker[c]]
       /\ pc[c] = "handler" /\ ret[c] = "true"
       /\ Cardinality(DemoRows(users)) = 2

\* C27: on a table that is not empty, a seed run that meets no database
\* error returns the table as it is, and its count returns True at once; a
\* request's attempt that counts on such a table leaves the table and has
\* nothing pending, and unless the count fails it returns True, the flag
\* is set and the request goes on to its handler; and a table that holds
\* a row of no demo user holds no demo user and never changes.
C27_NonEmptyTableIsLeftAlone ==
    /\ [](SeedStarting /\ users # {} =>
            \A s1 \in Salts, s2 \in Salts :
               /\ SeedRun(users, s1, s2) = users
               /\ create_test_users("count", {}, users, TRUE, s1) =
                     CtuResult("return", {}, users, TRUE))
    /\ []((\E r \in users : r.email \notin DemoEmails) => DemoRows(users) = {})
    /\ [][/\ \A c \in Clients :
                pc[c] = "count" /\ pc'[c] # "count" /\ users # {} =>
                   /\ users' = users
                   /\ txn'[c] = {}
                   /\ \/ ret'[c] = "false"
                      \/ /\ ret'[c] = "true"
                         /\ test_users_initialized'[worker[c]]
                         /\ pc'[c] = "handler"
          /\ (\E r \in users : r.email \notin DemoEmails) => users' = users]_vars

\* the flag was set by a request that counted the row of a user who is no
\* demo user, and the table holds no demo user
C27_Witness ==
    \E c \in Clients :
       /\ test_users_initialized[worker[c]]
       /\ pc[c] = "handler" /\ ret[c] = "true"
       /\ users = {ExternalUser}

GET == [route |-> "login", method |-> "GET", form |-> NoForm]

\* C28 as stated: a login request, GET or POST, of a client whose session
\* holds a user id is redirected to the dashboard and keeps the session.
C28_Original ==
    [][\A c \in Clients :
         Answered(c, "login") /\ sess[c] # NoUser =>
            /\ sess'[c] = sess[c]
            /\ resp'[c] = AnswerTo("login", Redirect("dashboard", ""))]_vars

\* C28 amended: a login request, GET or POST, of a client whose user
\* load_user finds is redirected to the dashboard and keeps the session,
\* whatever the form carries and whatever the lookup by email would give;
\* when load_user fails, the request is handled as one of a client that is
\* not authenticated, and it either keeps the session and gets the login
\* form, or logs in the user whose email and password it carries.
C28_AuthenticatedLoginRedirects ==
    /\ [](\A c \in Clients :
            pc[c] = "handler" /\ req[c].route = "login" /\ sess[c] # NoUser =>
               /\ \A up2 \in BOOLEAN :
                     login(users, TRUE, up2, sess[c], GET) =
                        Outcome(sess[c], Redirect("dashboard", ""))
               /\ \A f \in Forms, up2 \in BOOLEAN :
                     /\ login(users, TRUE, up2, sess[c], POST(f)) =
                           Outcome(sess[c], Redirect("dashboard", ""))
                     /\ login(users, FALSE, up2, sess[c], POST(f)) =
                           IF validate_on_submit(POST(f))
                           THEN login_submit(users, up2, sess[c], f)
                           ELSE Outcome(sess[c], Render("login", "", None, f.email)))
    /\ [][\A c \in Clients :
            Answered(c, "login") /\ sess[c] # NoUser =>
               \/ /\ sess'[c] = sess[c]
                  /\ resp'[c] = AnswerTo("login", Redirect("dashboard", ""))
               \/ /\ sess'[c] = sess[c]
                  /\ resp'[c].status = 200 /\ resp'[c].page = "login"
               \/ /\ sess'[c] # NoUser
                  /\ resp'[c] = AnswerTo("login", Redirect("dashboard", LoginSuccess))]_vars

\* on a table with two users, a logged-in client sent a login request and
\* was redirected to the dashboard without a message
C28_Witness ==
    \E c \in Clients :
       /\ Cardinality(users) = 2
       /\ sess[c] # NoUser
       /\ resp[c] = AnswerTo("login", Redirect("dashboard", ""))

\* user ids a session cookie may carry: those of the rows and one more
SessionIds == { r.id : r \in users } \cup { NextId(users) }

\* C29: for every user id a session may carry, a lookup by id that raises,
\* or that finds no row, returns no user, and the dashboard request is
\* redirected to login with the session as it was; a lookup that finds the
\* row serves the dashboard with that row.  Every answer to a dashboard
\* request is one of these two, and keeps the session.
C29_SessionHonouredWhileUserResolves ==
    /\ [](\A user_id \in SessionIds :
            /\ get_user_by_id(users, FALSE, user_id) = None
            /\ dashboard(users, FALSE, user_id) =
                  Outcome(user_id, Redirect("login", LoginRequired))
            /\ IF \E r \in users : r.id = user_id
               THEN dashboard(users, TRUE, user_id) =
                       Outcome(user_id,
                               Render("dashboard", "", Shown(RowWithId(users, user_id)), ""))
               ELSE /\ get_user_by_id(users, TRUE, user_id) = None
                    /\ dashboard(users, TRUE, user_id) =
                          Outcome(user_id, Redirect("login", LoginRequired)))
    /\ [][\A c \in Clients :
            Answered(c, "dashboard") =>
               /\ sess'[c] = sess[c]
               /\ \/ resp'[c] = AnswerTo("dashboard", Redirect("login", LoginRequired))
                  \/ /\ \E r \in users : r.id = sess[c]
                     /\ resp'[c] = AnswerTo("dashboard",
                                           Render("dashboard", "",
                                                  Shown(RowWithId(users, sess[c])), ""))]_vars

\* a client whose session holds a user id asked for the dashboard and was
\* redirected to login
C29_Witness ==
    \E c \in Clients :
       /\ sess[c] # NoUser
       /\ resp[c] = AnswerTo("dashboard", Redirect("login", LoginRequired))

\* C30: a step that answers a request of one client -- a login that
\* succeeds or is refused, a logout, any other request -- leaves the
\* session of every other client as it is, and leaves what that session
\* resolves to as it is; no step changes the sessions of two clients.
C30_SessionsAreIndependent ==
    [][/\ \A c \in Clients :
             pc[c] = "handler" /\ pc'[c] = "idle" =>
                \A d \in Clients \ {c} :
                   /\ sess'[d] = sess[d]
                   /\ current_user(users', TRUE, sess'[d]) = current_user(users, TRUE, sess[d])
       /\ Cardinality({ c \in Clients : sess'[c] # sess[c] }) <= 1]_vars

\* while one client is logged in, the logout of another logged-in client
\* is about to be handled
C30_Witness ==
    \E c \in Clients, d \in Clients :
       /\ c # d
       /\ sess[d] # NoUser
       /\ sess[c] # NoUser
       /\ pc[c] = "handler" /\ req[c].route = "logout"

\* each process has a first request waiting at the doors of ensure_test_users
FirstRequestsInFlight ==
    \A p \in Procs : \E c \in Clients : worker[c] = p /\ pc[c] = "acquire"

\* C24 as stated: the table never holds two rows with the email of one
\* demo user, and once each process has a first request in flight both
\* processes eventually set their flag.
C24_Original ==
    /\ [](OneRowPerDemoEmail(users))
    /\ FirstRequestsInFlight ~> (\A p \in Procs : test_users_initialized[p])

\* C24: with two worker processes, each with its own flag and lock, and a
\* unique email column, the table never holds two rows with the email of
\* one demo user, whatever the database does; and when each process has a
\* first request in flight and the database answers every statement from
\* then on, both processes eventually set their flag.
C24_TwoProcessesSeedOnce ==
    /\ [](OneRowPerDemoEmail(users))
    /\ (database = "up" /\ FirstRequestsInFlight)
          ~> (\A p \in Procs : test_users_initialized[p])

\* the seeds of two processes run at once against the empty table: one has
\* inserted the first demo user and not committed, the other has counted no
\* row and is about to insert the same email
C24_Witness ==
    \E c \in Clients, d \in Clients :
       /\ worker[c] # worker[d]
       /\ users = {}
       /\ pc[c] = "insert2"
       /\ pc[d] = "insert1"
       /\ test_users_lock[worker[c]] = c
       /\ test_users_lock[worker[d]] = d

InEnsure(c) == pc[c] \in {"acquire"} \cup CtuPositions

\* C25: a request that leaves ensure_test_users -- because the flag was
\* set, an attempt succeeded or the fifth attempt failed -- does not hold
\* the lock, and the lock is only ever held by a request inside the retry
\* loop of that process; under fair scheduling every request that entered
\* ensure_test_users leaves it, whatever the database does; and once the
\* database is available for good, a request to / or /login that arrives
\* at a process whose flag is unset gets the flag set.
C25_EnsureTerminatesAndReleases ==
    /\ [][\A c \in Clients :
            InEnsure(c) /\ pc'[c] = "handler" =>
               /\ test_users_lock'[worker[c]] # c
               /\ test_users_lock[worker[c]] = c => test_users_lock'[worker[c]] = NoOne]_vars
    /\ [](\A p \in Procs :
            test_users_lock[p] # NoOne =>
               /\ worker[test_users_lock[p]] = p
               /\ pc[test_users_lock[p]] \in CtuPositions)
    /\ \A c \in Clients : InEnsure(c) ~> (pc[c] = "handler")
    /\ \A c \in Clients :
          (database = "up" /\ pc[c] = "acquire")
             ~> test_users_initialized[worker[c]]

\* a request waits for the lock while another request of the same process,
\* whose attempts have all failed so far, makes its fifth
C25_Witness ==
    \E c \in Clients, d \in Clients :
       /\ c # d
       /\ worker[c] = worker[d]
       /\ pc[c] = "acquire"
       /\ pc[d] \in CtuPositions
       /\ calls[d] = MaxAttempts

\* ================================================= create_test_users.py
\* The standalone script: connect, one INSERT IGNORE for each of the two
\* demo users (the same two as test_users), commit.  Any exception ends the
\* run with the error message; the connection is then dropped with the
\* process, which discards its uncommitted rows.
MaxRuns == 3

ScriptPositions == {"connect", "insert1", "insert2", "commit"}

ScriptResult(pos, pending, table, out) ==
    [pos |-> pos, txn |-> pending, users |-> table, out |-> out]

\* (mutant) INSERT without IGNORE: a duplicate email raises
standalone_create_test_users_plain_insert(pos, pending, table, up, salt) ==
    IF ~up THEN ScriptResult("idle", {}, table, "error")
    ELSE CASE pos = "connect" -> ScriptResult("insert1", {}, table, "none")
           [] pos \in {"insert1", "insert2"} ->
                LET u == IF pos = "insert1" THEN test_users[1] ELSE test_users[2]
                    row == [id |-> NextId(table \cup pending),
                            name |-> u.name, email |-> u.email,
                            password_hash |-> generate_password_hash(u.password, salt)]
                IN IF UniqueEmail(table \cup pending, u.email)
                   THEN ScriptResult(IF pos = "insert1" THEN "insert2" ELSE "commit",
                                     pending \cup {row}, table, "none")
                   ELSE ScriptResult("idle", {}, table, "error")
           [] pos = "commit" -> ScriptResult("idle", {}, table \cup pending, "created")

\* One statement of create_test_users() of the script at position pos, on a
\* connection whose uncommitted rows are pending.  INSERT IGNORE adds the
\* row unless a row holds its email, and goes on either way.
standalone_create_test_users(pos, pending, table, up, salt) ==
    IF ~up THEN ScriptResult("idle", {}, table, "error")
    ELSE CASE pos = "connect" -> ScriptResult("insert1", {}, table, "none")
           [] pos \in {"insert1", "insert2"} ->
                LET u == IF pos = "insert1" THEN test_users[1] ELSE test_users[2]
                    row == [id |-> NextId(table \cup pending),
                            name |-> u.name, email |-> u.email,
                            password_hash |-> generate_password_hash(u.password, salt)]
                IN ScriptResult(IF pos = "insert1" THEN "insert2" ELSE "commit",
                                IF UniqueEmail(table \cup pending, u.email)
                                THEN pending \cup {row} ELSE pending,
                                table, "none")
           [] pos = "commit" -> ScriptResult("idle", {}, table \cup pending, "created")

\* a row that holds the email of the first demo user and is not the seed's
Namesake ==
    [id |-> 4, name |-> "Yamada Jiro", email |-> test_users[1].email,
     password_hash |-> generate_password_hash(ExternalPassword, 1)]

\* the tables the script is run against: emails are unique
ScriptTables ==
    { t \in SUBSET {ExternalUser, DemoRow(1), DemoRow(2), Namesake} :
         \A r1 \in t, r2 \in t : r1.email = r2.email => r1 = r2 }

\* The script is run by hand against a table of ScriptTables; the
\* application is not running.
ScriptInit ==
    /\ users \in ScriptTables
    /\ test_users_initialized = [p \in Procs |-> FALSE]
    /\ test_users_lock = [p \in Procs |-> NoOne]
    /\ boot = [p \in Procs |-> "off"]
    /\ mtxn = [p \in Procs |-> {}]
    /\ pc = [c \in Clients |-> "idle"]
    /\ req = [c \in Clients |-> NoRequest]
    /\ worker = [c \in Clients |-> CHOOSE p \in Procs : TRUE]
    /\ attempt = [c \in Clients |-> 0]
    /\ calls = [c \in Clients |-> 0]
    /\ txn = [c \in Clients |-> {}]
    /\ ret = [c \in Clients |-> "none"]
    /\ sess = [c \in Clients |-> NoUser]
    /\ resp = [c \in Clients |-> NoResponse]
    /\ nreq = 0
    /\ submitted = [c \in Clients |-> FALSE]
    /\ database = "unreliable"
    /\ standalone = NotRun

\* __main__ of the script: create_test_users()
ScriptStart ==
    /\ standalone.pos = "idle"
    /\ standalone.runs < MaxRuns
    /\ standalone' = [pos |-> "connect", txn |-> {},
                      runs |-> standalone.runs + 1, out |-> "none"]
    /\ UNCHANGED << users, test_users_initialized, test_users_lock, boot, mtxn,
                    pc, req, worker, attempt, calls, txn, ret, sess, resp, nreq,
                    submitted, database >>

ScriptStatement ==
    /\ standalone.pos \in ScriptPositions
    /\ \E salt \in Salts, up \in Answers :
         LET r == standalone_create_test_users(standalone.pos, standalone.txn,
                                               users, up, salt)
         IN /\ standalone' = [pos |-> r.pos, txn |-> r.txn,
                              runs |-> standalone.runs, out |-> r.out]
            /\ users' = r.users
    /\ UNCHANGED << test_users_initialized, test_users_lock, boot, mtxn,
                    pc, req, worker, attempt, calls, txn, ret, sess, resp, nreq,
                    submitted, database >>

ScriptNext == ScriptStart \/ ScriptStatement

ScriptSpec == ScriptInit /\ [][ScriptNext]_vars

\* the demo user the INSERT IGNORE at position pos is for
ScriptUser(pos) == IF pos = "insert1" THEN test_users[1] ELSE test_users[2]

\* C31: run any number of times against a table with unique emails, the
\* script keeps the emails unique, so there is never more than one row for
\* a demo email; no step removes or changes a row; an INSERT IGNORE that
\* is answered never ends the run, it adds nothing when a row, committed
\* or pending, holds the email, and otherwise adds one pending row with
\* the demo user's name and email and a hash of the demo password; a run
\* that ends with the success message leaves exactly one row for each demo
\* email, having added exactly its pending rows; a run that ends with the
\* error message leaves the table as it was.
C31_StandaloneSeedIsIdempotent ==
    /\ [](\A r1 \in users, r2 \in users : r1.email = r2.email => r1 = r2)
    /\ [](standalone.pos \in {"insert1", "insert2"} =>
            \A salt \in Salts :
               standalone_create_test_users(standalone.pos, standalone.txn,
                                            users, TRUE, salt).out = "none")
    /\ [][/\ users \subseteq users'
          /\ standalone.pos \in {"insert1", "insert2"} /\ standalone'.out = "none" =>
                LET u == ScriptUser(standalone.pos)
                    added == standalone'.txn \ standalone.txn
                IN /\ users' = users
                   /\ standalone.txn \subseteq standalone'.txn
                   /\ IF KnownEmail(users \cup standalone.txn, u.email)
                      THEN added = {}
                      ELSE /\ Cardinality(added) = 1
                           /\ \A r \in added :
                                 /\ r.name = u.name
                                 /\ r.email = u.email
                                 /\ check_password_hash(r.password_hash, u.password)
                                 /\ \A x \in users : x.id # r.id
          /\ standalone.pos = "commit" /\ standalone'.out = "created" =>
                /\ users' = users \cup standalone.txn
                /\ \A e \in DemoEmails : Cardinality(RowsWith(users', e)) = 1
          /\ standalone'.out = "error" /\ standalone.out # "error" =>
                /\ users' = users
                /\ standalone'.txn = {}]_vars

\* the script has succeeded a second time on a table where another row
\* held the first demo email: that row is kept, and the second demo user
\* is the row the first run inserted
C31_Witness ==
    /\ standalone.runs >= 2
    /\ standalone.out = "created"
    /\ Namesake \in users
    /\ DemoRow(2) \notin users
    /\ Cardinality(RowsWith(users, test_users[2].email)) = 1
    /\ Cardinality(RowsWith(users, test_users[1].email)) = 1

====
